---- MODULE Spec2Model ----
(***************************************************************************)
(* A model of chess_board.py: the coordinate mapper (the FILE and RANK     *)
(* globals and the two notation conversions), Square (set_piece,           *)
(* remove_piece), Board (__init__, update_pieces, get_pieces) and the      *)
(* scenario builders.                                                      *)
(*                                                                         *)
(* Python values are modelled as follows.  A str is a sequence of          *)
(* one-character strings, a list is a sequence, a raised exception is the    *)
(* string naming it.  A Piece object is a record                           *)
(* [name, color, id]: name and color are what get_name() and get_color()   *)
(* return, id stands for the object's identity.  A Square object of the    *)
(* 8 x 8 board is its coordinate pair <<file, rank>>.                      *)
(***************************************************************************)
EXTENDS Integers, Sequences, FiniteSets, TLC

VARIABLES
    FILE,         \* module global FILE (chess_board.py:10)
    RANK,         \* module global RANK (chess_board.py:11)
    board,        \* the Board most recently constructed by BoardInit: size, status, square names
    conv,         \* the last notation conversion made on that board
    squares,      \* Square.piece of the squares of the 8 x 8 board where it is not None
    square,       \* Piece.square of the pieces where it is not None
    pieces,       \* Board.pieces
    piece_lists,  \* Board.piece_lists[name][color]
    white_king,   \* Board.white_king
    black_king,   \* Board.black_king
    built,        \* which builder populated the board ("none": a bare Board())
    call,         \* the last call made on the board and its arguments
    result,       \* how that call ended: "ok", "None" (None returned for a board) or the exception raised
    printed,      \* what that call wrote to standard output
    placed,       \* pieces put on a square since the last update_pieces (caller's bookkeeping)
    taken,        \* pieces taken off a square since the last update_pieces (caller's bookkeeping)
    orderly       \* no piece was put on a second square or reported both set and removed

coordVars == <<FILE, RANK, board, conv>>
boardVars == <<squares, square, pieces, piece_lists, white_king, black_king, built, call,
               result, printed>>
logVars   == <<placed, taken, orderly>>
vars      == <<FILE, RANK, board, conv, squares, square, pieces, piece_lists,
               white_king, black_king, built, call, result, printed, placed, taken,
               orderly>>

-----------------------------------------------------------------------------
(* Bounds of the model.                                                    *)

\* Non-default boards are constructed with 1..MaxFiles files (and 8 files).
MaxFiles == 2
\* Boards are constructed with 1..MaxRanks ranks.
MaxRanks == 11
\* The total number of pieces passed to one update_pieces call.
MaxArgs == 2
\* The number of duplicate entries Board.pieces may hold (a call that raises
\* leaves the pieces it appended, and skips the list(set(...)) of line 304).
MaxDup == 1

-----------------------------------------------------------------------------
(* Python list helpers.                                                    *)

Range(l) == {l[i] : i \in 1..Len(l)}

Reversed(l) == [i \in 1..Len(l) |-> l[Len(l) + 1 - i]]

\* l.index(x), zero-based: the first position of x; -1 stands for ValueError
\* (x is not in l).
Index(l, x) ==
    IF x \in Range(l)
    THEN (CHOOSE i \in 1..Len(l) : l[i] = x /\ \A j \in 1..(i - 1) : l[j] # x) - 1
    ELSE -1

\* l.remove(x) for x in l: the list without the first occurrence of x.
Remove(l, x) ==
    LET i == Index(l, x) + 1
    IN  SubSeq(l, 1, i - 1) \o SubSeq(l, i + 1, Len(l))

RECURSIVE SetToList(_)
SetToList(S) ==
    IF S = {} THEN <<>>
    ELSE LET x == CHOOSE y \in S : TRUE
         IN  <<x>> \o SetToList(S \ {x})

\* list(set(l)): every element once, in the order the set iterates them.
ListSet(l) == SetToList(Range(l))

-----------------------------------------------------------------------------
(* Coordinate mapper.                                                      *)

\* FILE and RANK are sequences of labels.  The default globals are the strings
\* 'abcdefgh' and '87654321', whose elements are their characters;
\* defineFILEandRANK makes lists of strings.  Either way an element is a str.
DefaultFILE == <<<<"a">>, <<"b">>, <<"c">>, <<"d">>, <<"e">>, <<"f">>, <<"g">>, <<"h">>>>
DefaultRANK == <<<<"8">>, <<"7">>, <<"6">>, <<"5">>, <<"4">>, <<"3">>, <<"2">>, <<"1">>>>

alpha == <<"a", "b", "c", "d", "e", "f", "g", "h", "i", "j", "k", "l", "m",
           "n", "o", "p", "q", "r", "s", "t", "u", "v", "w", "x", "y", "z">>

Digits == <<"0", "1", "2", "3", "4", "5", "6", "7", "8", "9">>

\* str(n) for an int n >= 0: its decimal digits.
RECURSIVE str(_)
str(n) == IF n < 10 THEN <<Digits[n + 1]>>
          ELSE str(n \div 10) \o <<Digits[(n % 10) + 1]>>

\* The rank labels defineFILEandRANK builds: str(rank) for rank in reversed(range(0, ranks)).
rankList(ranks) == [i \in 1..ranks |-> str(ranks - i)]

\* The file labels defineFILEandRANK builds: alpha[file] for file in range(files).
fileList(files) == [i \in 1..files |-> <<alpha[i]>>]

\* defineFILEandRANK(files, ranks): the two lists, or IndexError from alpha[file].
defineFILEandRANK(files, ranks) ==
    IF files > Len(alpha)
    THEN [err |-> "IndexError", fileList |-> <<>>, rankList |-> <<>>]
    ELSE [err |-> "ok", fileList |-> fileList(files), rankList |-> rankList(ranks)]

\* computerToAlgebraic(file, rank) under globals F, R: FILE[file] + RANK[rank],
\* or IndexError when an index is past the end.
computerToAlgebraicIn(F, R, file, rank) ==
    IF file + 1 > Len(F) \/ rank + 1 > Len(R)
    THEN [err |-> "IndexError", val |-> <<>>]
    ELSE [err |-> "ok", val |-> F[file + 1] \o R[rank + 1]]

computerToAlgebraic(file, rank) == computerToAlgebraicIn(FILE, RANK, file, rank)

\* algebraicToComputer(coordinate): FILE.index(coordinate[0]), RANK.index(coordinate[1]);
\* ValueError when a character is no label.
algebraicToComputer(coordinate) ==
    IF Len(coordinate) < 2 THEN [err |-> "IndexError", val |-> <<>>]
    ELSE LET file == Index(FILE, <<coordinate[1]>>)
             rank == Index(RANK, <<coordinate[2]>>)
         IN  IF file < 0 \/ rank < 0
             THEN [err |-> "ValueError", val |-> <<>>]
             ELSE [err |-> "ok", val |-> <<file, rank>>]

\* A colouring that looks at the rank only.
getSquareColor_ByRank(file, rank) == IF rank % 2 = 0 THEN "light" ELSE "dark"

\* getSquareColor(file, rank).
getSquareColor(file, rank) ==
    IF rank % 2 = file % 2 THEN "light" ELSE "dark"

\* The grid Board.__init__ fills: Square(file, rank) for file, rank in range.
Grid(numFiles, numRanks) == (0..(numFiles - 1)) \X (0..(numRanks - 1))

FileChoices == (1..MaxFiles) \cup {8}
RankChoices == 1..MaxRanks

NoBoard == [files |-> 0, ranks |-> 0, status |-> "none", names |-> <<>>, colors |-> <<>>]
NoConv  == [file |-> -1, rank |-> -1, alg |-> <<>>,
            comp |-> [err |-> "none", val |-> <<>>]]

\* Board.__init__(numFiles, numRanks): sets the globals for a non-default size,
\* then colours every square with getSquareColor and names it with
\* computerToAlgebraic (Square.__init__).
BoardInit(numFiles, numRanks) ==
    LET nonDefault == numFiles # 8 \/ numRanks # 8
        d  == defineFILEandRANK(numFiles, numRanks)
        F  == IF nonDefault /\ d.err = "ok" THEN d.fileList ELSE FILE
        R  == IF nonDefault /\ d.err = "ok" THEN d.rankList ELSE RANK
        nm == [sq \in Grid(numFiles, numRanks) |->
                  computerToAlgebraicIn(F, R, sq[1], sq[2])]
        st == IF nonDefault /\ d.err # "ok" THEN d.err
              ELSE IF \E sq \in Grid(numFiles, numRanks) : nm[sq].err # "ok"
                   THEN "IndexError"
                   ELSE "ok"
    IN  /\ FILE' = F
        /\ RANK' = R
        /\ board' = [files |-> numFiles, ranks |-> numRanks, status |-> st,
                     names |-> IF st = "ok"
                               THEN [sq \in Grid(numFiles, numRanks) |-> nm[sq].val]
                               ELSE <<>>,
                     colors |-> IF st = "ok"
                                THEN [sq \in Grid(numFiles, numRanks) |->
                                         getSquareColor(sq[1], sq[2])]
                                ELSE <<>>]
        /\ conv' = NoConv

Construct ==
    /\ \E numFiles \in FileChoices, numRanks \in RankChoices :
          BoardInit(numFiles, numRanks)
    /\ UNCHANGED <<boardVars, logVars>>

\* A caller converts a coordinate of the board just constructed to algebraic
\* notation and back.
Convert ==
    /\ board.status = "ok"
    /\ \E sq \in Grid(board.files, board.ranks) :
          LET a == computerToAlgebraic(sq[1], sq[2])
          IN  conv' = [file |-> sq[1], rank |-> sq[2], alg |-> a.val,
                       comp |-> IF a.err # "ok" THEN a
                                ELSE algebraicToComputer(a.val)]
    /\ UNCHANGED <<FILE, RANK, board, boardVars, logVars>>

-----------------------------------------------------------------------------
(* Pieces and squares of the 8 x 8 board.                                  *)

Colors  == {"white", "black"}
\* The keys of Board.piece_lists.
Tracked == {"Queen", "Rook", "Knight", "Bishop"}

\* A Piece object: its class name, its color and its identity.
Piece(name, color, id) == [name |-> name, color |-> color, id |-> id]
get_name(piece)  == piece.name
get_color(piece) == piece.color

\* None where a Piece is expected, and None where a Square is expected.
NonePiece  == Piece("None", "None", -1)
NoneSquare == <<-1, -1>>

Squares == (0..7) \X (0..7)

\* Board.squares.flat: the squares in the order Board.__init__ appended them.
Flat == [i \in 1..64 |-> <<(i - 1) \div 8, (i - 1) % 8>>]

\* A constructor that hands out one object per class and colour.
Made_OnePerColor(name, color, sq) == Piece(name, color, 0)

\* The object a builder creates for the square it first puts it on.
Made(name, color, sq) == Piece(name, color, 8 * sq[1] + sq[2])

\* The placements of makeStandardBoard, in the order of its set_piece calls.
StandardPlacements ==
    LET pawns == [i \in 1..16 |->
                    LET file == (i - 1) \div 2
                    IN  IF i % 2 = 1 THEN <<<<file, 6>>, Made("Pawn", "white", <<file, 6>>)>>
                                     ELSE <<<<file, 1>>, Made("Pawn", "black", <<file, 1>>)>>]
        pair(name, f1, f2) ==
            << <<<<f1, 7>>, Made(name, "white", <<f1, 7>>)>>,
               <<<<f1, 0>>, Made(name, "black", <<f1, 0>>)>>,
               <<<<f2, 7>>, Made(name, "white", <<f2, 7>>)>>,
               <<<<f2, 0>>, Made(name, "black", <<f2, 0>>)>> >>
    IN  pawns \o pair("Rook", 0, 7) \o pair("Knight", 1, 6) \o pair("Bishop", 2, 5)
        \o << <<<<3, 7>>, Made("Queen", "white", <<3, 7>>)>>,
              <<<<3, 0>>, Made("Queen", "black", <<3, 0>>)>>,
              <<<<4, 7>>, Made("King", "white", <<4, 7>>)>>,
              <<<<4, 0>>, Made("King", "black", <<4, 0>>)>> >>

\* The placements of the two endgame builders: two pieces of the chosen color
\* on files 0 and 7 of its back rank, then the kings.
EndgamePlacements(name, color, rank) ==
    << <<<<0, rank>>, Made(name, color, <<0, rank>>)>>,
       <<<<7, rank>>, Made(name, color, <<7, rank>>)>>,
       <<<<4, 7>>, Made("King", "white", <<4, 7>>)>>,
       <<<<4, 0>>, Made("King", "black", <<4, 0>>)>> >>

Pieces ==
    {StandardPlacements[i][2] : i \in 1..Len(StandardPlacements)}
    \cup {Made(n, c, <<f, IF c = "white" THEN 7 ELSE 0>>) :
            n \in {"Rook", "Queen"}, c \in Colors, f \in {0, 7}}

-----------------------------------------------------------------------------
(* Square.                                                                 *)

\* An attribute map f with key k set to v, and with key k set to None.
Put(f, k, v) == [x \in DOMAIN f \cup {k} |-> IF x = k THEN v ELSE f[x]]
Drop(f, k)   == [x \in DOMAIN f \ {k} |-> f[x]]

\* Square.get_piece(): self.piece.
get_piece(sqs, s) == IF s \in DOMAIN sqs THEN sqs[s] ELSE NonePiece

\* piece.square.
square_of(psq, piece) == IF piece \in DOMAIN psq THEN psq[piece] ELSE NoneSquare

\* Square.has_piece().
has_piece(sqs, s) == get_piece(sqs, s) # NonePiece

\* Square.set_piece(piece) on square s: self.piece = piece; piece.square = self.
set_piece(sqs, psq, s, piece) ==
    [squares |-> Put(sqs, s, piece),
     square  |-> Put(psq, piece, s)]

\* A remove_piece that empties the square and leaves the piece's reference.
remove_piece_SquareOnly(sqs, psq, s) ==
    [squares |-> Drop(sqs, s), square |-> psq]

\* Square.remove_piece() on square s.
remove_piece(sqs, psq, s) ==
    IF has_piece(sqs, s)
    THEN [squares |-> Drop(sqs, s),
          square  |-> Drop(psq, get_piece(sqs, s))]
    ELSE [squares |-> sqs, square |-> psq]

-----------------------------------------------------------------------------
(* Board.update_pieces.                                                    *)

EmptyLists == [name \in Tracked |-> [color \in Colors |-> <<>>]]

\* Lines 287-293: append the piece to Board.pieces and, when its name is a key
\* of piece_lists, to its type/colour list, rebuilt as list(set(...)).
AddPiece(acc, piece) ==
    LET name  == get_name(piece)
        color == get_color(piece)
        added == Append(acc.piece_lists[name][color], piece)
    IN  [pieces      |-> Append(acc.pieces, piece),
         piece_lists |-> IF name \in Tracked
                         THEN [acc.piece_lists EXCEPT ![name][color] =
                                  ListSet(added)]
                         ELSE acc.piece_lists,
         err         |-> acc.err]

\* Lines 296-302: list.remove raises ValueError when the piece is absent, first
\* from Board.pieces, then from its type/colour list.
DropPiece(acc, piece) ==
    LET name  == get_name(piece)
        color == get_color(piece)
    IN  IF piece \notin Range(acc.pieces)
        THEN [acc EXCEPT !.err = "ValueError"]
        ELSE LET left == Remove(acc.pieces, piece)
             IN  IF name \notin Tracked
                 THEN [acc EXCEPT !.pieces = left]
                 ELSE IF piece \notin Range(acc.piece_lists[name][color])
                      THEN [acc EXCEPT !.pieces = left, !.err = "ValueError"]
                      ELSE [acc EXCEPT !.pieces = left,
                                       !.piece_lists[name][color] =
                                           ListSet(Remove(acc.piece_lists[name][color], piece))]

\* The pieces the scan of squares.flat meets (lines 273-275), in its order.
Scanned(sqs) ==
    SelectSeq([i \in 1..Len(Flat) |-> get_piece(sqs, Flat[i])],
              LAMBDA piece : piece # NonePiece)

\* Lines 273-280: every piece on a square is appended to Board.pieces and, when
\* its name is a key of piece_lists, to its type/colour list.
Scan(sqs, acc) ==
    [pieces      |-> acc.pieces \o Scanned(sqs),
     piece_lists |-> [name \in Tracked |-> [color \in Colors |->
                        acc.piece_lists[name][color]
                        \o SelectSeq(Scanned(sqs),
                                     LAMBDA piece : get_name(piece) = name
                                                    /\ get_color(piece) = color)]],
     err         |-> acc.err]

\* Lines 286-293: for piece in reversed(pieces_set), from position i of the
\* reversed list on.
RECURSIVE AddFrom(_, _, _)
AddFrom(l, i, acc) ==
    IF i > Len(l) THEN acc
    ELSE AddFrom(l, i + 1, AddPiece(acc, l[i]))

\* Lines 295-302: for piece in reversed(pieces_removed); the loop ends at the
\* first exception.
RECURSIVE DropFrom(_, _, _)
DropFrom(l, i, acc) ==
    IF i > Len(l) \/ acc.err # "ok" THEN acc
    ELSE DropFrom(l, i + 1, DropPiece(acc, l[i]))

\* Line 304, reached when nothing was raised.
Finish(acc) ==
    IF acc.err = "ok" THEN [acc EXCEPT !.pieces = ListSet(acc.pieces)] ELSE acc

\* Board.update_pieces(pieces_set, pieces_removed) on a board with squares sqs,
\* pieces pcs and piece_lists pls: the new pieces and piece_lists, and err,
\* "ok" or the exception raised.
update_pieces(sqs, pcs, pls, pieces_set, pieces_removed) ==
    LET acc == [pieces |-> pcs, piece_lists |-> pls, err |-> "ok"]
    IN  IF pcs = <<>>
        THEN Finish(Scan(sqs, acc))
        ELSE Finish(DropFrom(Reversed(pieces_removed), 1,
                             AddFrom(Reversed(pieces_set), 1, acc)))

\* Board.get_pieces().
get_pieces == pieces

-----------------------------------------------------------------------------
(* The calls made on a board.                                              *)

\* The pieces callers pass to set_piece and update_pieces, and the squares
\* they call set_piece and remove_piece on.
Pool  == {Made("Rook", "white", <<0, 7>>), Made("King", "black", <<4, 0>>)}
Touch == {<<0, 7>>, <<0, 5>>}

Upper == <<"A", "B", "C", "D", "E", "F", "G", "H", "I", "J", "K", "L", "M",
           "N", "O", "P", "Q", "R", "S", "T", "U", "V", "W", "X", "Y", "Z">>

\* A lower() that leaves upper-case letters as they are.
lower_KeepsCase(s) == s

\* str.lower().
lower(s) == [i \in 1..Len(s) |->
               IF \E k \in 1..Len(Upper) : Upper[k] = s[i]
               THEN alpha[CHOOSE k \in 1..Len(Upper) : Upper[k] = s[i]]
               ELSE s[i]]

\* str.startswith(c) for a one-character c.
startswith(s, c) == Len(s) >= 1 /\ s[1] = c

\* The colour selectors passed to the endgame builders.
Selectors == {<<"W", "h", "i", "t", "e">>, <<"w">>, <<"b", "l", "a", "c", "k">>,
              <<"B">>, <<"p", "u", "r", "p", "l", "e">>, <<>>}

NoCall == [op |-> "Board", sq |-> NoneSquare, piece |-> NonePiece,
           pieces_set |-> <<>>, pieces_removed |-> <<>>, selector |-> <<>>]

\* The pieces found by scanning the occupied squares.
OnBoard == {get_piece(squares, s) : s \in {t \in Squares : has_piece(squares, t)}}

\* Sequences over S of length at most n.
SeqsUpTo(S, n) == UNION {[1..k -> S] : k \in 0..n}

\* The argument lists of one update_pieces call.
ArgLists == {a \in SeqsUpTo(Pool, MaxArgs) \X SeqsUpTo(Pool, MaxArgs) :
                Len(a[1]) + Len(a[2]) <= MaxArgs}

\* Board(): an empty 8 x 8 board (lines 224-252).
Init ==
    /\ FILE = DefaultFILE
    /\ RANK = DefaultRANK
    /\ board = NoBoard
    /\ conv = NoConv
    /\ squares = <<>>
    /\ square = <<>>
    /\ pieces = <<>>
    /\ piece_lists = EmptyLists
    /\ white_king = NonePiece
    /\ black_king = NonePiece
    /\ built = "none"
    /\ call = NoCall
    /\ result = "ok"
    /\ printed = ""
    /\ placed = {}
    /\ taken = {}
    /\ orderly = TRUE

\* The set_piece calls of a builder, one after the other: a square holds the
\* piece last set on it, a piece points at the square it was last set on.
Place(pl, sqs, psq) ==
    LET last(S) == CHOOSE i \in S : \A j \in S : j <= i
        onSq(s) == {i \in 1..Len(pl) : pl[i][1] = s}
        ofPc(p) == {i \in 1..Len(pl) : pl[i][2] = p}
    IN  [squares |-> [s \in DOMAIN sqs \cup {pl[i][1] : i \in 1..Len(pl)} |->
                        IF onSq(s) = {} THEN sqs[s] ELSE pl[last(onSq(s))][2]],
         square  |-> [p \in DOMAIN psq \cup {pl[i][2] : i \in 1..Len(pl)} |->
                        IF ofPc(p) = {} THEN psq[p] ELSE pl[last(ofPc(p))][1]]]

\* What every builder does with its placements: the set_piece calls, the two
\* king references, one update_pieces().
Populate(pl, name, selector) ==
    LET st == Place(pl, squares, square)
        up == update_pieces(st.squares, pieces, piece_lists, <<>>, <<>>)
    IN  /\ squares' = st.squares
        /\ square' = st.square
        /\ pieces' = up.pieces
        /\ piece_lists' = up.piece_lists
        /\ white_king' = Made("King", "white", <<4, 7>>)
        /\ black_king' = Made("King", "black", <<4, 0>>)
        /\ built' = name
        /\ call' = [NoCall EXCEPT !.op = name, !.selector = selector]
        /\ result' = up.err
        /\ printed' = ""

\* A builder that prints its message and returns None: there is no board.
ReturnNone(name, selector) ==
    /\ built' = "nothing"
    /\ call' = [NoCall EXCEPT !.op = name, !.selector = selector]
    /\ result' = "None"
    /\ printed' = IF name = "makeTwoRooksEndgameBoard"
                  THEN "rookColor must be either 'black' or 'white'."
                  ELSE "queenColor must be either 'black' or 'white'."
    /\ UNCHANGED <<squares, square, pieces, piece_lists, white_king, black_king>>

\* A builder starts from its own Board().
Fresh == built = "none" /\ call = NoCall

makeStandardBoard ==
    /\ Fresh
    /\ Populate(StandardPlacements, "makeStandardBoard", <<>>)
    /\ UNCHANGED <<coordVars, logVars>>

\* The body shared by makeTwoRooksEndgameBoard and makeQueenEndgameBoard.
Endgame(builder, name, selector) ==
    IF startswith(lower(selector), "w")
    THEN Populate(EndgamePlacements(name, "white", 7), builder, selector)
    ELSE IF startswith(lower(selector), "b")
         THEN Populate(EndgamePlacements(name, "black", 0), builder, selector)
         ELSE ReturnNone(builder, selector)

makeTwoRooksEndgameBoard ==
    /\ Fresh
    /\ \E rookColor \in Selectors :
          Endgame("makeTwoRooksEndgameBoard", "Rook", rookColor)
    /\ UNCHANGED <<coordVars, logVars>>

makeQueenEndgameBoard ==
    /\ Fresh
    /\ \E queenColor \in Selectors :
          Endgame("makeQueenEndgameBoard", "Queen", queenColor)
    /\ UNCHANGED <<coordVars, logVars>>

\* There is a board to call on.
HasBoard == built # "nothing"

\* square.set_piece(piece) by any caller.
DoSetPiece(s, piece) ==
    LET st == set_piece(squares, square, s, piece)
    IN  /\ squares' = st.squares
        /\ square' = st.square
        /\ call' = [NoCall EXCEPT !.op = "set_piece", !.sq = s, !.piece = piece]
        /\ result' = "ok"
        /\ printed' = ""
        /\ UNCHANGED <<pieces, piece_lists, white_king, black_king, built>>

\* square.remove_piece() by any caller.
DoRemovePiece(s) ==
    LET st == remove_piece(squares, square, s)
    IN  /\ squares' = st.squares
        /\ square' = st.square
        /\ call' = [NoCall EXCEPT !.op = "remove_piece", !.sq = s,
                             !.piece = get_piece(squares, s)]
        /\ result' = "ok"
        /\ printed' = ""
        /\ UNCHANGED <<pieces, piece_lists, white_king, black_king, built>>

\* An update_pieces that also clears the reference to a king it removes.
DoUpdatePieces_DropsKing(pieces_set, pieces_removed) ==
    LET up == update_pieces(squares, pieces, piece_lists, pieces_set, pieces_removed)
    IN  /\ pieces' = up.pieces
        /\ piece_lists' = up.piece_lists
        /\ call' = [NoCall EXCEPT !.op = "update_pieces", !.pieces_set = pieces_set,
                                  !.pieces_removed = pieces_removed]
        /\ result' = up.err
        /\ printed' = ""
        /\ white_king' = IF white_king \in Range(pieces_removed) THEN NonePiece
                         ELSE white_king
        /\ black_king' = IF black_king \in Range(pieces_removed) THEN NonePiece
                         ELSE black_king
        /\ UNCHANGED <<squares, square, built>>

\* board.update_pieces(pieces_set, pieces_removed) by any caller.
DoUpdatePieces(pieces_set, pieces_removed) ==
    LET up == update_pieces(squares, pieces, piece_lists, pieces_set, pieces_removed)
    IN  /\ pieces' = up.pieces
        /\ piece_lists' = up.piece_lists
        /\ call' = [NoCall EXCEPT !.op = "update_pieces", !.pieces_set = pieces_set,
                                  !.pieces_removed = pieces_removed]
        /\ result' = up.err
        /\ printed' = ""
        /\ UNCHANGED <<squares, square, white_king, black_king, built>>

SetPiece ==
    /\ HasBoard
    /\ \E s \in Touch, piece \in Pool : DoSetPiece(s, piece)
    /\ UNCHANGED <<coordVars, logVars>>

RemovePiece ==
    /\ HasBoard
    /\ \E s \in Touch : DoRemovePiece(s)
    /\ UNCHANGED <<coordVars, logVars>>

UpdatePieces ==
    /\ HasBoard
    /\ \E a \in ArgLists : DoUpdatePieces(a[1], a[2])
    /\ Len(pieces') <= Cardinality(Range(pieces')) + MaxDup
    /\ UNCHANGED <<coordVars, logVars>>

\* Any sequence of calls on a bare or built board.
Next ==
    \/ makeTwoRooksEndgameBoard
    \/ makeQueenEndgameBoard
    \/ makeStandardBoard
    \/ RemovePiece
    \/ SetPiece
    \/ UpdatePieces

Spec == Init /\ [][Next]_vars

\* Boards of any size are constructed one after another, and coordinates of the
\* latest one are converted.
NextCoord ==
    \/ Construct
    \/ Convert

SpecCoord == Init /\ [][NextCoord]_vars

-----------------------------------------------------------------------------
(* A caller that keeps account of what it did to the squares and reports   *)
(* it to update_pieces: pieces_set lists the pieces it put on a square     *)
(* since the previous call, pieces_removed the pieces it took off one      *)
(* (by remove_piece, or by setting another piece on their square).         *)

\* The lists that hold exactly the elements of S, each once.
Listings(S) == {l \in [1..Cardinality(S) -> S] : Range(l) = S}

SyncSetPiece ==
    /\ HasBoard
    /\ \E s \in Touch, piece \in Pool :
          /\ DoSetPiece(s, piece)
          /\ placed' = placed \cup {piece}
          /\ taken' = taken \cup ({get_piece(squares, s)} \ {NonePiece, piece})
          /\ orderly' = (orderly /\ \A t \in Squares \ {s} : get_piece(squares, t) # piece)
    /\ UNCHANGED coordVars

SyncRemovePiece ==
    /\ HasBoard
    /\ \E s \in Touch :
          /\ DoRemovePiece(s)
          /\ taken' = taken \cup ({get_piece(squares, s)} \ {NonePiece})
    /\ UNCHANGED <<coordVars, placed, orderly>>

SyncUpdatePieces ==
    /\ HasBoard
    /\ \E pieces_set \in Listings(placed), pieces_removed \in Listings(taken) :
          DoUpdatePieces(pieces_set, pieces_removed)
    /\ placed' = {}
    /\ taken' = {}
    /\ orderly' = (orderly /\ placed \cap taken = {})
    /\ UNCHANGED coordVars

NextSync ==
    \/ makeTwoRooksEndgameBoard
    \/ makeQueenEndgameBoard
    \/ makeStandardBoard
    \/ SyncRemovePiece
    \/ SyncSetPiece
    \/ SyncUpdatePieces

SpecSync == Init /\ [][NextSync]_vars

-----------------------------------------------------------------------------
(* Properties.                                                             *)

\* The pieces of one type and colour found on the occupied squares.
OnBoardOf(name, color) ==
    {piece \in OnBoard : get_name(piece) = name /\ get_color(piece) = color}

\* The flat list and every type/colour list hold, as sets, exactly the pieces
\* found on the occupied squares.
Exact ==
    /\ Range(pieces) = OnBoard
    /\ \A name \in Tracked, color \in Colors :
          Range(piece_lists[name][color]) = OnBoardOf(name, color)

NoDup(l) == Cardinality(Range(l)) = Len(l)

Built == built \in {"makeStandardBoard", "makeTwoRooksEndgameBoard", "makeQueenEndgameBoard"}

\* C1: after every update_pieces call that returns normally, made by a caller
\* whose pieces_set lists exactly the pieces placed on squares and whose
\* pieces_removed lists exactly the pieces taken off squares since the previous
\* call, the flat list and every type/colour list equal the pieces on the
\* occupied squares.
C1_SyncedAfterUpdate ==
    (call.op = "update_pieces" /\ result = "ok") => Exact

\* C2: in every state of a board built by a scenario builder,
\* whatever calls were made since, the flat list and every type/colour list
\* equal the pieces on the occupied squares.
C2_ExactAtAllTimes ==
    Built => Exact

\* The lists are exact after a builder and after every update_pieces call that
\* returned normally, as long as every call reported exactly the pieces placed
\* and taken off since the previous one, none reported a piece both ways and no
\* piece was put on a second square.
ExactWhenOrderly ==
    (Built /\ orderly /\ result = "ok" /\ call.op \notin {"set_piece", "remove_piece"})
        => Exact

\* C3: for every square s and piece p, s.piece is p exactly when p.square is s.
C3_LinksTwoSided ==
    \A s \in Squares, piece \in Pieces :
        (get_piece(squares, s) = piece) <=> (square_of(square, piece) = s)

\* C4: on a board that has just been constructed, converting a coordinate to
\* algebraic notation and back gives the coordinate.
C4_RoundTrip ==
    (board.status = "ok" /\ conv.comp.err # "none")
        => (conv.comp.err = "ok" /\ conv.comp.val = <<conv.file, conv.rank>>)

\* C5: every default 8 x 8 board constructs successfully and names its square
\* (file, rank) 'abcdefgh'[file] + '87654321'[rank], whatever boards were
\* constructed before it.
C5_DefaultBoardNames ==
    (board.files = 8 /\ board.ranks = 8)
        => /\ board.status = "ok"
           /\ \A sq \in Grid(8, 8) :
                 board.names[sq] = DefaultFILE[sq[1] + 1] \o DefaultRANK[sq[2] + 1]

\* C6: on a board of non-default size, file index f is labelled with the f-th
\* lowercase letter and rank index r with numRanks - r.
C6_NonDefaultLabels ==
    (board.status = "ok" /\ (board.files # 8 \/ board.ranks # 8))
        => /\ \A f \in 0..(board.files - 1) : FILE[f + 1] = <<alpha[f + 1]>>
           /\ \A r \in 0..(board.ranks - 1) : RANK[r + 1] = str(board.ranks - r)

\* The step is an update_pieces call.
IsUpdate == call'.op = "update_pieces"

\* C7: an update_pieces call whose pieces_removed holds a piece that is not in
\* Board.pieces reports an error.
C7_AbsentRemovalReported ==
    [][(IsUpdate /\ \E piece \in Range(call'.pieces_removed) : piece \notin Range(pieces))
          => result' # "ok"]_vars

\* C8: update_pieces(pieces_removed=[p]) for p in Board.pieces returns normally,
\* makes get_pieces() shorter by exactly one, takes p out of its type/colour
\* list, and changes the membership of no other piece in any list.
C8_RemoveOne ==
    [][(/\ IsUpdate
        /\ call'.pieces_set = <<>>
        /\ Len(call'.pieces_removed) = 1
        /\ call'.pieces_removed[1] \in Range(pieces))
          => LET p == call'.pieces_removed[1]
             IN  /\ result' = "ok"
                 /\ Len(pieces') = Len(pieces) - 1
                 /\ Range(pieces') \ {p} = Range(pieces) \ {p}
                 /\ \A name \in Tracked, color \in Colors :
                       /\ p \notin Range(piece_lists'[name][color])
                       /\ Range(piece_lists'[name][color]) \ {p}
                              = Range(piece_lists[name][color]) \ {p}]_vars

\* C9: an update_pieces call in which a piece is in both pieces_set and
\* pieces_removed is rejected with an error.
C9_OverlapRejected ==
    [][(IsUpdate /\ Range(call'.pieces_set) \cap Range(call'.pieces_removed) # {})
          => result' # "ok"]_vars

\* C10: update_pieces() with empty lists on a board whose indexes are populated
\* leaves the flat list and every type/colour list unchanged as sets, and no
\* piece is more than once in any of them.
C10_EmptyUpdateIdempotent ==
    [][(IsUpdate /\ call'.pieces_set = <<>> /\ call'.pieces_removed = <<>> /\ pieces # <<>>)
          => /\ result' = "ok"
             /\ Range(pieces') = Range(pieces)
             /\ NoDup(pieces')
             /\ \A name \in Tracked, color \in Colors :
                   /\ Range(piece_lists'[name][color]) = Range(piece_lists[name][color])
                   /\ NoDup(piece_lists'[name][color])]_vars

\* l.count(x): the number of positions of l holding x.
count(l, x) == Cardinality({i \in 1..Len(l) : l[i] = x})

\* The piece is in Board.pieces and, when its type is tracked, in its
\* type/colour list.
Present(piece) ==
    /\ piece \in Range(pieces)
    /\ get_name(piece) \in Tracked
          => piece \in Range(piece_lists[get_name(piece)][get_color(piece)])

\* What C11 says of one update_pieces step: every piece of pieces_set is once
\* in Board.pieces' and once in its type/colour list'; when the pieces passed
\* were all present already and nothing is removed, no list changes as a set
\* and no error is raised.
SetAbsorbed ==
    /\ \A piece \in Range(call'.pieces_set) :
          /\ count(pieces', piece) = 1
          /\ get_name(piece) \in Tracked
                => count(piece_lists'[get_name(piece)][get_color(piece)], piece) = 1
    /\ (call'.pieces_removed = <<>> /\ \A piece \in Range(call'.pieces_set) : Present(piece))
          => /\ result' = "ok"
             /\ Range(pieces') = Range(pieces)
             /\ \A name \in Tracked, color \in Colors :
                   Range(piece_lists'[name][color]) = Range(piece_lists[name][color])

\* C11: in every update_pieces call after the first synchronization, each
\* piece of pieces_set ends up in Board.pieces exactly once and, if tracked, in
\* its type/colour list exactly once; passing a piece that is already present,
\* or listing it twice, changes no list as a set and raises no error.
C11_SetAbsorbed ==
    [][(IsUpdate /\ pieces # <<>>) => SetAbsorbed]_vars

\* The same for the calls that pass no pieces_removed.
SetAbsorbedWhenNothingRemoved ==
    [][(IsUpdate /\ pieces # <<>> /\ call'.pieces_removed = <<>>) => SetAbsorbed]_vars

\* The pieces of one class and colour on the occupied squares.
OnBoardIs(name, color) ==
    {piece \in OnBoard : get_name(piece) = name /\ get_color(piece) = color}

\* The king reference is set, and the king and its square point at each other.
KingOn(king, s) ==
    /\ king # NonePiece
    /\ get_name(king) = "King"
    /\ get_piece(squares, s) = king
    /\ square_of(square, king) = s

\* C12: the board makeStandardBoard() returns has exactly 32 pieces in
\* get_pieces(), 2 pieces in every type/colour list except 1 in each Queen
\* list, and white_king and black_king set, distinct and on (4,7) and (4,0).
C12_StandardBoard ==
    (call.op = "makeStandardBoard")
        => /\ result = "ok"
           /\ Len(get_pieces) = 32
           /\ NoDup(get_pieces)
           /\ \A name \in Tracked, color \in Colors :
                 /\ Len(piece_lists[name][color]) = (IF name = "Queen" THEN 1 ELSE 2)
                 /\ NoDup(piece_lists[name][color])
           /\ white_king # black_king
           /\ KingOn(white_king, <<4, 7>>)
           /\ KingOn(black_king, <<4, 0>>)

\* makeStandardBoard() has just returned its board.
C12_Witness ==
    /\ call.op = "makeStandardBoard"
    /\ built = "makeStandardBoard"
    /\ Cardinality(OnBoard) = 32

\* The colour a selector chooses by its first letter, in either case.
Chosen(selector) ==
    IF selector # <<>> /\ selector[1] \in {"w", "W"} THEN "white"
    ELSE IF selector # <<>> /\ selector[1] \in {"b", "B"} THEN "black"
    ELSE "neither"

\* C13: makeTwoRooksEndgameBoard(selector) returns, for a selector whose first
\* letter is w or b in either case, a board with exactly four pieces: one king
\* per colour, two rooks of the selected colour and no other piece of the
\* opposite colour; for every other selector an error is reported and no board
\* is returned.
C13_TwoRooksBoard ==
    (call.op = "makeTwoRooksEndgameBoard")
        => LET color == Chosen(call.selector)
           IN  IF color = "neither"
               THEN /\ result = "None"
                    /\ printed # ""
                    /\ built = "nothing"
               ELSE /\ result = "ok"
                    /\ printed = ""
                    /\ built = "makeTwoRooksEndgameBoard"
                    /\ Cardinality(OnBoard) = 4
                    /\ Range(get_pieces) = OnBoard
                    /\ Len(get_pieces) = 4
                    /\ \A c \in Colors : Cardinality(OnBoardIs("King", c)) = 1
                    /\ Cardinality(OnBoardIs("Rook", color)) = 2
                    /\ Range(piece_lists["Rook"][color]) = OnBoardIs("Rook", color)
                    /\ \A piece \in OnBoard :
                          get_color(piece) # color => get_name(piece) = "King"

\* makeTwoRooksEndgameBoard('White') has just returned its board.
C13_Witness ==
    /\ call.op = "makeTwoRooksEndgameBoard"
    /\ call.selector = <<"W", "h", "i", "t", "e">>
    /\ result = "ok"
    /\ Cardinality(OnBoardIs("Rook", "white")) = 2

\* C14: the board makeQueenEndgameBoard(selector) returns, for a selector whose
\* first letter is w or b in either case, holds one king per colour and one
\* queen per colour: each Queen list has exactly one piece.
C14_OneQueenPerColour ==
    (call.op = "makeQueenEndgameBoard" /\ Chosen(call.selector) # "neither")
        => /\ result = "ok"
           /\ \A c \in Colors :
                 /\ Cardinality(OnBoardIs("King", c)) = 1
                 /\ Cardinality(OnBoardIs("Queen", c)) = 1
                 /\ Len(piece_lists["Queen"][c]) = 1

\* Coordinates that differ by exactly 1 in exactly one of file and rank.
Adjacent(a, b) ==
    \/ a[1] = b[1] /\ (a[2] = b[2] + 1 \/ b[2] = a[2] + 1)
    \/ a[2] = b[2] /\ (a[1] = b[1] + 1 \/ b[1] = a[1] + 1)

\* C15: any two in-bounds coordinates that differ by exactly 1 in exactly one
\* of file and rank get different colours from getSquareColor, and
\* getSquareColor(0,0) = getSquareColor(7,7).
C15_ColoursAlternate ==
    (board.status = "ok")
        => /\ \A a, b \in Grid(board.files, board.ranks) :
                 Adjacent(a, b) => board.colors[a] # board.colors[b]
           /\ (board.files = 8 /\ board.ranks = 8)
                 => board.colors[<<0, 0>>] = board.colors[<<7, 7>>]

\* An 8 x 8 board whose squares have been coloured.
C15_Witness ==
    /\ board.status = "ok"
    /\ board.files = 8
    /\ board.ranks = 8
    /\ board.colors[<<0, 0>>] = "light"
    /\ board.colors[<<0, 1>>] = "dark"

\* C16: whenever an update_pieces call reports an error, Board.pieces and every
\* type/colour list are exactly as they were before the call.
C16_AllOrNothing ==
    [][(IsUpdate /\ result' # "ok")
          => (pieces' = pieces /\ piece_lists' = piece_lists)]_vars

\* C17: set_piece and remove_piece leave Board.pieces, every type/colour list
\* and the two king references unchanged; update_pieces leaves every square's
\* occupant, every piece's back-reference and the two king references
\* unchanged, even when a king is listed in pieces_removed.
C17_Frames ==
    [][/\ call'.op \in {"set_piece", "remove_piece"}
          => /\ pieces' = pieces
             /\ piece_lists' = piece_lists
             /\ white_king' = white_king
             /\ black_king' = black_king
       /\ IsUpdate
          => /\ squares' = squares
             /\ square' = square
             /\ white_king' = white_king
             /\ black_king' = black_king]_vars

\* An update_pieces call that removed the black king from the lists has
\* returned, and Board.black_king still refers to it.
C17_Witness ==
    /\ call.op = "update_pieces"
    /\ result = "ok"
    /\ black_king # NonePiece
    /\ black_king \in Range(call.pieces_removed)
    /\ black_king \notin Range(pieces)

\* C18: remove_piece on an occupied square leaves the square's occupant and the
\* former occupant's back-reference empty, on an empty square it changes
\* nothing, and in both cases no other square's occupant changes.
C18_RemovePiece ==
    [][(call'.op = "remove_piece")
          => LET s == call'.sq
                 former == get_piece(squares, s)
             IN  /\ IF former # NonePiece
                    THEN /\ get_piece(squares', s) = NonePiece
                         /\ square_of(square', former) = NoneSquare
                    ELSE /\ squares' = squares
                         /\ square' = square
                 /\ \A t \in Squares \ {s} :
                       get_piece(squares', t) = get_piece(squares, t)]_vars

\* remove_piece has just emptied a square that held a piece.
C18_Witness ==
    /\ call.op = "remove_piece"
    /\ call.piece # NonePiece
    /\ ~has_piece(squares, call.sq)
    /\ square_of(square, call.piece) = NoneSquare

\* C19: every piece in a type/colour list is also in Board.pieces and is of
\* that list's type and colour; no King and no Pawn is in any type/colour list.
C19_ListsWithinPieces ==
    \A name \in Tracked, color \in Colors :
        \A piece \in Range(piece_lists[name][color]) :
            /\ piece \in Range(pieces)
            /\ get_name(piece) = name
            /\ get_color(piece) = color
            /\ get_name(piece) \notin {"King", "Pawn"}

====
